---- MODULE Spec2Model ----
(***************************************************************************)
(* Model of yop_cloud_sdk.sdk.YOPStorage: upload / download / list_files / *)
(* delete against a local file system and an HTTP server whose answers are *)
(* nondeterministic.  Strings are sequences of tokens ("/" is the path     *)
(* separator), file contents are sequences of integers (bytes).            *)
(***************************************************************************)
EXTENDS Integers, Sequences, FiniteSets, TLC

VARIABLES fs, headers, call, env, ncalls, server

vars == <<fs, headers, call, env, ncalls, server>>

\* ------------------------------------------------------------------ bounds
\* chunk size of the model (the source uses 64 * 1024, sdk.py line 11)
DOWNLOAD_CHUNK_SIZE == 2
\* longest regular file of the initial file system
MaxFileLen == 5
\* number of steps other actors of the file system may take
MaxEnvSteps == 1
\* number of calls made on the client object
MaxCalls == 2

\* ------------------------------------------------------------------ strings
SEP == "/"

Max(S) == CHOOSE x \in S : \A y \in S : y <= x

\* p.rfind('/') : index of the last separator, 0 when there is none
RFindSep(p) ==
    LET S == {i \in 1..Len(p) : p[i] = SEP}
    IN IF S = {} THEN 0 ELSE Max(S)

AllSep(h) == \A i \in 1..Len(h) : h[i] = SEP

RECURSIVE RStripSep(_)
RStripSep(h) ==
    IF h # <<>> /\ h[Len(h)] = SEP THEN RStripSep(SubSeq(h, 1, Len(h) - 1)) ELSE h

\* os.path.split
split(p) ==
    LET i == RFindSep(p)
        head == SubSeq(p, 1, i)
        tail == SubSeq(p, i + 1, Len(p))
    IN <<IF head # <<>> /\ ~AllSep(head) THEN RStripSep(head) ELSE head, tail>>

\* os.path.join of two parts
join(a, b) ==
    IF b # <<>> /\ b[1] = SEP THEN b
    ELSE IF a = <<>> \/ a[Len(a)] = SEP THEN a \o b
    ELSE a \o <<SEP>> \o b

\* os.path.basename
basename(p) == SubSeq(p, RFindSep(p) + 1, Len(p))

\* f'.{name}.tar.gz'
TarGzName(name) == <<".">> \o name \o <<".tar.gz">>

\* the components of a path: what the file system resolves (empty ones dropped)
RECURSIVE Comps(_)
Comps(p) ==
    IF p = <<>> THEN <<>>
    ELSE LET i == RFindSep(p)
             last == SubSeq(p, i + 1, Len(p))
             rest == IF i = 0 THEN <<>> ELSE RStripSep(SubSeq(p, 1, i))
         IN IF last = <<>> THEN Comps(rest) ELSE Append(Comps(rest), last)

TrailingSep(p) == p # <<>> /\ p[Len(p)] = SEP

\* ------------------------------------------------------------------ file system
\* fs maps the resolved path of every existing node to its kind and content;
\* the working directory <<>> always exists.
DirNode == [kind |-> "dir", data |-> <<>>]
FileNode(d) == [kind |-> "file", data |-> d]

Has(f, c) == c = <<>> \/ c \in DOMAIN f
ParentOf(c) == SubSeq(c, 1, Len(c) - 1)
NodeOf(f, c) == IF c = <<>> THEN DirNode ELSE f[c]

\* a check of the parent directory only, in place of os.path.exists
exists_ParentOnly(f, p) == p # <<>> /\ Has(f, ParentOf(Comps(p)))

\* os.path.exists
exists(f, p) ==
    /\ p # <<>>
    /\ Has(f, Comps(p))
    /\ TrailingSep(p) => NodeOf(f, Comps(p)).kind = "dir"

\* os.path.isdir
isdir(f, p) == p # <<>> /\ Has(f, Comps(p)) /\ NodeOf(f, Comps(p)).kind = "dir"

\* a path that open() and os.path.getsize() accept as a regular file
IsFile(f, p) ==
    /\ p # <<>>
    /\ ~TrailingSep(p)
    /\ Has(f, Comps(p))
    /\ NodeOf(f, Comps(p)).kind = "file"

\* a size counted in whole chunks, in place of os.path.getsize
getsize_WholeChunks(f, p) ==
    ((Len(NodeOf(f, Comps(p)).data) + DOWNLOAD_CHUNK_SIZE - 1) \div DOWNLOAD_CHUNK_SIZE)
        * DOWNLOAD_CHUNK_SIZE

\* os.path.getsize of a regular file
getsize(f, p) == Len(NodeOf(f, Comps(p)).data)

WriteFile(f, c, d) == [q \in DOMAIN f \cup {c} |-> IF q = c THEN FileNode(d) ELSE f[q]]

\* os.remove
remove(f, c) == [q \in DOMAIN f \ {c} |-> f[q]]

Prefixes(c) == {SubSeq(c, 1, n) : n \in 1..Len(c)}

\* os.makedirs
makedirs(f, c) == [q \in DOMAIN f \cup Prefixes(c) |-> IF q \in DOMAIN f THEN f[q] ELSE DirNode]

IsUnder(c, d) == Len(c) > Len(d) /\ SubSeq(c, 1, Len(d)) = d

\* ------------------------------------------------------------------ archives
\* tar -cz ... -f archive -C dir . : a header byte 0 followed by the content of
\* the regular files of the tree (the archive itself is not dumped)
RECURSIVE ConcatData(_, _)
ConcatData(f, S) ==
    IF S = {} THEN <<>>
    ELSE LET c == CHOOSE x \in S : \A y \in S : Len(x) <= Len(y)
         IN f[c].data \o ConcatData(f, S \ {c})

TarPack(f, dir, archive) ==
    <<0>> \o ConcatData(f, {c \in DOMAIN f : IsUnder(c, dir) /\ c # archive /\ f[c].kind = "file"})

\* ------------------------------------------------------------------ inputs
NameD == <<"d">>
NameF == <<"f">>
NameG == <<"g">>

\* the bytes 1..n
BytesUpTo(n) == [i \in 1..n |-> i]

\* local file system before the first call: directory d holding file d/g and
\* a regular file f of n bytes
InitFs(n) ==
    (<<NameD>> :> DirNode) @@ (<<NameD, NameG>> :> FileNode(<<7>>))
        @@ (<<NameF>> :> FileNode(BytesUpTo(n)))

\* local paths passed to upload: the directory with and without a trailing
\* separator, the regular file, a path that does not exist
SrcPaths == {<<"d">>, <<"d", "/">>, <<"f">>, <<"x">>}

\* remote paths
RemotePaths == {<<"r", "/", "d">>, <<"r", "/", "f">>}

\* status codes the server answers with; 0 stands for a transport error (the
\* requests library raises instead of returning a response)
Statuses == {200, 204, 304, 404, 500}
Outcomes == Statuses \cup {0}

\* ------------------------------------------------------------------ errors
NoErr == [cls |-> "", msg |-> "", status |-> 0]
Err(cls, msg, status) == [cls |-> cls, msg |-> msg, status |-> status]

ErrLocalNotFound == Err("RuntimeError", "File not found", 0)
ErrArchive == Err("RuntimeError", "Failed to archive folder", 0)
ErrUpload(s) == Err("RuntimeError", "Upload failed", s)
ErrTransport == Err("ConnectionError", "", 0)
ErrOsNotFound == Err("FileNotFoundError", "os", 0)

\* ------------------------------------------------------------------ calls
NoFd == [open |-> FALSE, path |-> <<>>, pos |-> 0, orphan |-> FALSE, data |-> <<>>]

\* the locals of one call of a client method, and what it did so far
IdleCall ==
    [pc |-> "idle", op |-> "", src_file_path |-> <<>>, src_dir_path |-> <<>>,
     dst_file_path |-> <<>>, dst_dir_path |-> <<>>, isdir |-> FALSE,
     file_size |-> 0, fd |-> NoFd, reqs |-> <<>>, chunks |-> <<>>, incs |-> <<>>,
     tar_runs |-> 0, tar_rc |-> 0, err |-> NoErr, body |-> <<>>, listing |-> <<>>,
     made_dirs |-> FALSE, wrote |-> FALSE, arg |-> <<>>, fs0 |-> <<>>, env0 |-> 0,
     err0 |-> NoErr]

Min(a, b) == IF a < b THEN a ELSE b

RECURSIVE Concat(_)
Concat(ss) == IF ss = <<>> THEN <<>> ELSE Head(ss) \o Concat(Tail(ss))

RECURSIVE SumSeq(_)
SumSeq(s) == IF s = <<>> THEN 0 ELSE Head(s) + SumSeq(Tail(s))

\* the content an open file descriptor reads: the file's, or the unlinked
\* inode's once the path was removed while the descriptor was open
FdData(f, d) == IF d.orphan THEN d.data ELSE f[d.path].data

\* unlinking path c keeps the content alive for the descriptors open on it
Orphan(cl, f, c) ==
    [q \in DOMAIN cl |->
        IF cl[q].fd.open /\ ~cl[q].fd.orphan /\ cl[q].fd.path = c
        THEN [cl[q] EXCEPT !.fd.orphan = TRUE, !.fd.data = f[c].data]
        ELSE cl[q]]

\* a read that stops one byte before the end of the file
ReadChunk_DropsLastByte(f, d) ==
    LET data == FdData(f, d)
    IN SubSeq(data, d.pos + 1, Min(d.pos + DOWNLOAD_CHUNK_SIZE, Len(data) - 1))

\* file_descriptor.read(DOWNLOAD_CHUNK_SIZE)
ReadChunk(f, d) ==
    LET data == FdData(f, d)
    IN SubSeq(data, d.pos + 1, Min(d.pos + DOWNLOAD_CHUNK_SIZE, Len(data)))

\* the headers _do_upload builds for both of its requests
UploadHeaders(base, dir) ==
    base \cup {"Content-Disposition", "X-File-Size"}
         \cup (IF dir THEN {"X-Is-Archive"} ELSE {})

Request(kind, hdrs, c, status) ==
    [kind |-> kind, hdrs |-> hdrs, size |-> c.file_size, status |-> status]

\* a preflight check that only stops on server errors
PreflightRejected_ServerErrorsOnly(s) == s >= 500

\* _do_upload(), line 176: the preflight statuses that stop the upload
PreflightRejected(s) == s >= 400

\* ------------------------------------------------------------------ upload
\* upload(), lines 42-49: existence check, classification, archive path
\* (force only goes into the URL, which the model leaves out)
UploadStart(p, src, dst) ==
    /\ call[p].pc = "idle"
    /\ ncalls < MaxCalls
    /\ ncalls' = ncalls + 1
    /\ LET c0 == [IdleCall EXCEPT !.op = "upload", !.src_file_path = src, !.arg = src,
                                  !.dst_file_path = dst, !.fs0 = fs]
           sp == split(src)
       IN call' = [call EXCEPT ![p] =
            IF ~exists(fs, src)
            THEN [c0 EXCEPT !.err = ErrLocalNotFound, !.pc = "done"]
            ELSE IF isdir(fs, src)
            THEN [c0 EXCEPT !.isdir = TRUE, !.src_dir_path = src,
                            !.src_file_path = join(sp[1], TarGzName(sp[2])),
                            !.pc = "up_tar"]
            ELSE [c0 EXCEPT !.pc = "up_getsize"]]
    /\ UNCHANGED <<fs, headers, env, server>>

\* upload(), lines 50-56: the tar subprocess; when it fails it may have
\* written nothing, a part of the archive or all of it
UploadTar(p) ==
    /\ call[p].pc = "up_tar"
    /\ LET c == call[p]
           tmp == Comps(c.src_file_path)
           pack == TarPack(fs, Comps(c.src_dir_path), tmp)
       IN \/ /\ fs' = WriteFile(fs, tmp, pack)
             /\ call' = [call EXCEPT ![p].tar_runs = c.tar_runs + 1,
                                     ![p].pc = "up_getsize"]
          \/ /\ \/ fs' = fs
                \/ \E n \in 0..Len(pack) : fs' = WriteFile(fs, tmp, SubSeq(pack, 1, n))
             /\ call' = [call EXCEPT ![p].tar_runs = c.tar_runs + 1, ![p].tar_rc = 1,
                                     ![p].err = ErrArchive, ![p].pc = "done"]
    /\ UNCHANGED <<headers, env, ncalls, server>>

\* upload(), line 58: os.path.getsize, outside the try block
UploadGetsize(p) ==
    /\ call[p].pc = "up_getsize"
    /\ LET c == call[p]
       IN call' = [call EXCEPT ![p] =
            IF IsFile(fs, c.src_file_path)
            THEN [c EXCEPT !.file_size = getsize(fs, c.src_file_path), !.env0 = env,
                           !.pc = "up_open"]
            ELSE [c EXCEPT !.err = ErrOsNotFound, !.pc = "done"]]
    /\ UNCHANGED <<fs, headers, env, ncalls, server>>

\* an open that reads the first chunk at once instead of leaving it to the
\* request that carries the body
UploadOpen_Eager(p) ==
    /\ call[p].pc = "up_open"
    /\ LET c == call[p]
           d == [NoFd EXCEPT !.open = TRUE, !.path = Comps(c.src_file_path)]
           n == Min(DOWNLOAD_CHUNK_SIZE, getsize(fs, c.src_file_path))
       IN call' = [call EXCEPT ![p] =
            IF IsFile(fs, c.src_file_path)
            THEN [c EXCEPT !.fd = [d EXCEPT !.pos = n],
                           !.incs = IF n = 0 THEN <<>> ELSE <<n>>,
                           !.chunks = IF n = 0 THEN <<>>
                                      ELSE <<SubSeq(fs[d.path].data, 1, n)>>,
                           !.pc = "up_pre"]
            ELSE [c EXCEPT !.err = ErrOsNotFound, !.pc = "up_finally"]]
    /\ UNCHANGED <<fs, headers, env, ncalls, server>>

\* upload(), line 61: open(src_file_path, 'rb') inside the try block
UploadOpen(p) ==
    /\ call[p].pc = "up_open"
    /\ LET c == call[p]
       IN call' = [call EXCEPT ![p] =
            IF IsFile(fs, c.src_file_path)
            THEN [c EXCEPT !.fd = [NoFd EXCEPT !.open = TRUE, !.path = Comps(c.src_file_path)],
                           !.pc = "up_pre"]
            ELSE [c EXCEPT !.err = ErrOsNotFound, !.pc = "up_finally"]]
    /\ UNCHANGED <<fs, headers, env, ncalls, server>>

\* _do_upload(), lines 158-179: the headers-only request and its check
UploadPreflightOn(p, r) ==
    /\ call[p].pc = "up_pre"
    /\  LET c == call[p]
            rq == Request("pre", UploadHeaders(headers, c.isdir) \cup {"X-Expect"}, c, r)
            c1 == [c EXCEPT !.reqs = Append(c.reqs, rq)]
        IN call' = [call EXCEPT ![p] =
             IF r = 0 THEN [c1 EXCEPT !.err = ErrTransport, !.pc = "up_finally"]
             ELSE IF PreflightRejected(r)
             THEN [c1 EXCEPT !.err = ErrUpload(r), !.pc = "up_finally"]
             ELSE [c1 EXCEPT !.pc = "up_body"]]
    /\ UNCHANGED <<fs, headers, env, ncalls>>

\* the preflight against a server that may answer anything
UploadPreflight(p) == \E r \in Outcomes : UploadPreflightOn(p, r) /\ UNCHANGED server

\* _do_upload(), lines 181-183: the request that carries the body is issued
UploadBody(p) ==
    /\ call[p].pc = "up_body"
    /\ LET c == call[p]
           rq == Request("body", UploadHeaders(headers, c.isdir), c, -1)
       IN call' = [call EXCEPT ![p].reqs = Append(c.reqs, rq), ![p].pc = "up_stream"]
    /\ UNCHANGED <<fs, headers, env, ncalls, server>>

\* generate_chunks_from_file(), lines 14-17: the transport pulls one chunk;
\* the connection may break instead
UploadStream(p) ==
    /\ call[p].pc = "up_stream"
    /\ LET c == call[p]
           chunk == ReadChunk(fs, c.fd)
       IN \/ call' = [call EXCEPT ![p] =
                IF chunk = <<>> THEN [c EXCEPT !.pc = "up_resp"]
                ELSE [c EXCEPT !.incs = Append(c.incs, Len(chunk)),
                               !.chunks = Append(c.chunks, chunk),
                               !.fd.pos = c.fd.pos + Len(chunk)]]
          \/ call' = [call EXCEPT ![p].err = ErrTransport, ![p].pc = "up_finally"]
    /\ UNCHANGED <<fs, headers, env, ncalls, server>>

\* a check of the final answer that lets every status below 400 pass
BodyRejected_Only4xx5xx(s) == s >= 400

\* _do_upload(), line 185: the statuses of the final answer that fail the upload
BodyRejected(s) == s # 200

\* _do_upload(), lines 185-188: the answer to the request that carried the body
UploadResponseOn(p, r) ==
    /\ call[p].pc = "up_resp"
    /\  LET c == call[p]
            c1 == [c EXCEPT !.reqs[Len(c.reqs)].status = r, !.pc = "up_finally"]
        IN call' = [call EXCEPT ![p] =
             IF r = 0 THEN [c1 EXCEPT !.err = ErrTransport]
             ELSE IF BodyRejected(r) THEN [c1 EXCEPT !.err = ErrUpload(r)]
             ELSE c1]
    /\ UNCHANGED <<fs, headers, env, ncalls>>

\* the final answer of a server that may answer anything
UploadResponse(p) == \E r \in Outcomes : UploadResponseOn(p, r) /\ UNCHANGED server

\* upload(), lines 71-74: the file is closed, then finally removes the archive;
\* an error of os.remove replaces the one that was propagating
UploadFinally(p) ==
    /\ call[p].pc = "up_finally"
    /\ LET c == [call[p] EXCEPT !.fd = NoFd, !.err0 = call[p].err, !.pc = "done"]
           tmp == Comps(c.src_file_path)
       IN IF ~c.isdir
          THEN /\ call' = [call EXCEPT ![p] = c]
               /\ fs' = fs
          ELSE IF IsFile(fs, c.src_file_path)
          THEN /\ call' = Orphan([call EXCEPT ![p] = c], fs, tmp)
               /\ fs' = remove(fs, tmp)
          ELSE /\ call' = [call EXCEPT ![p] = [c EXCEPT !.err = ErrOsNotFound]]
               /\ fs' = fs
    /\ UNCHANGED <<headers, env, ncalls, server>>

\* ------------------------------------------------------------------ download
ErrRemoteNotFound == Err("FileNotFoundError", "not found on server", 0)
ErrBrowse == Err("Exception", "Failed to browse files on server", 0)
ErrDownload == Err("Exception", "Failed to download file", 0)
ErrDelete(s) == Err("Exception", "Failed to delete file", s)
ErrUnzip == Err("RuntimeError", "Failed to unzip folder", 0)
ErrOsIsDir == Err("IsADirectoryError", "os", 0)

\* local destinations passed to download
DstPaths == {<<"n", "/", "o">>, <<"d">>}

\* listings the server may answer with for a path: no entry, the path's own
\* name, another name, two entries
Entry(name) == [name |-> name, type |-> "file"]
Listings(path) ==
    {<<>>, <<Entry(basename(path))>>, <<Entry(<<"z">>)>>,
     <<Entry(basename(path)), Entry(<<"z">>)>>}

\* bodies the server may answer a download with: an archive, a plain file
Bodies == {<<0, 7, 8>>, <<1>>}
\* the body kept for an answer that is not read
Bodies_Default == <<1>>

\* a classification by the number of entries alone
IsDirListing_CountOnly(listing, path) == ~(Len(listing) = 1)

\* _is_file_on_server_dir(), line 226
IsDirListing(listing, path) ==
    ~(Len(listing) = 1 /\ basename(path) = listing[1].name)

\* a listing check without the 404 case
ListError_No404(r) ==
    IF r = 0 THEN ErrTransport
    ELSE IF r \notin {200, 404} THEN ErrBrowse
    ELSE NoErr

\* _do_list_files(), lines 235-242: the error of a listing answer, if any
ListError(r) ==
    IF r = 0 THEN ErrTransport
    ELSE IF r = 404 THEN ErrRemoteNotFound
    ELSE IF r # 200 THEN ErrBrowse
    ELSE NoErr

\* download(), line 83
DownloadStart(p, src, dst) ==
    /\ call[p].pc = "idle"
    /\ ncalls < MaxCalls
    /\ ncalls' = ncalls + 1
    /\ call' = [call EXCEPT ![p] =
            [IdleCall EXCEPT !.op = "download", !.src_file_path = src, !.arg = dst,
                             !.dst_file_path = dst, !.dst_dir_path = split(dst)[1],
                             !.fs0 = fs, !.pc = "dl_ls"]]
    /\ UNCHANGED <<fs, headers, env, server>>

\* download(), lines 85-89: the listing request, the classification and the
\* redirection of the destination to the temporary archive
DownloadClassifyOn(p, r, listing) ==
    /\ call[p].pc = "dl_ls"
    /\  LET c == call[p]
            c1 == [c EXCEPT !.reqs = Append(c.reqs, Request("ls", headers, c, r))]
            dir == IsDirListing(listing, c.src_file_path)
            sp == split(c.dst_file_path)
        IN call' = [call EXCEPT ![p] =
                IF ListError(r) # NoErr THEN [c1 EXCEPT !.err = ListError(r), !.pc = "done"]
                ELSE IF dir
                THEN [c1 EXCEPT !.listing = listing, !.isdir = TRUE,
                                !.dst_dir_path = c.dst_file_path,
                                !.dst_file_path = join(sp[1], TarGzName(sp[2])),
                                !.pc = "dl_mkdir"]
                ELSE [c1 EXCEPT !.listing = listing, !.pc = "dl_mkdir"]]
    /\ UNCHANGED <<fs, headers, env, ncalls>>

\* the classification against a server that may answer anything (an answer
\* that is not read is taken as the empty listing)
DownloadClassify(p) ==
    \E r \in Outcomes, listing \in Listings(call[p].src_file_path) :
        /\ r # 200 => listing = <<>>
        /\ DownloadClassifyOn(p, r, listing)
        /\ UNCHANGED server

\* download(), lines 91-92
DownloadMakedirs(p) ==
    /\ call[p].pc = "dl_mkdir"
    /\ LET c == call[p]
       IN IF c.dst_dir_path # <<>> /\ ~exists(fs, c.dst_dir_path)
          THEN /\ fs' = makedirs(fs, Comps(c.dst_dir_path))
               /\ call' = [call EXCEPT ![p].made_dirs = TRUE, ![p].pc = "dl_get"]
          ELSE /\ fs' = fs
               /\ call' = [call EXCEPT ![p].pc = "dl_get"]
    /\ UNCHANGED <<headers, env, ncalls, server>>

\* _do_download(), lines 200-202: headers is the client's own dict, so the
\* archive flag is stored in self._headers
DownloadHeaders(base, dir) == IF dir THEN base \cup {"X-Is-Archive"} ELSE base

\* a download check that lets every status below 400 pass
GetError_Only4xx5xx(r) ==
    IF r = 0 THEN ErrTransport
    ELSE IF r = 404 THEN ErrRemoteNotFound
    ELSE IF r >= 400 THEN ErrDownload
    ELSE NoErr

\* _do_download(), lines 203-208: the error of a download answer, if any
GetError(r) ==
    IF r = 0 THEN ErrTransport
    ELSE IF r = 404 THEN ErrRemoteNotFound
    ELSE IF r # 200 THEN ErrDownload
    ELSE NoErr

\* _do_download(), lines 198-210: the GET request and its status check
DownloadGetOn(p, r, body) ==
    /\ call[p].pc = "dl_get"
    /\ headers' = DownloadHeaders(headers, call[p].isdir)
    /\  LET c == call[p]
            c1 == [c EXCEPT !.reqs = Append(c.reqs, Request("get", headers', c, r))]
        IN call' = [call EXCEPT ![p] =
                IF GetError(r) # NoErr THEN [c1 EXCEPT !.err = GetError(r), !.pc = "done"]
                ELSE [c1 EXCEPT !.body = body, !.pc = "dl_open"]]
    /\ UNCHANGED <<fs, env, ncalls>>

\* the download against a server that may answer anything
DownloadGet(p) ==
    \E r \in Outcomes, body \in Bodies :
        /\ r # 200 => body = Bodies_Default
        /\ DownloadGetOn(p, r, body)
        /\ UNCHANGED server

\* _do_download(), line 212: open(dst_file_path, 'wb') creates or truncates
DownloadOpen(p) ==
    /\ call[p].pc = "dl_open"
    /\ LET c == call[p]
           dst == Comps(c.dst_file_path)
       IN IF isdir(fs, c.dst_file_path)
          THEN /\ call' = [call EXCEPT ![p].err = ErrOsIsDir, ![p].pc = "done"]
               /\ fs' = fs
          ELSE IF ~Has(fs, ParentOf(dst))
          THEN /\ call' = [call EXCEPT ![p].err = ErrOsNotFound, ![p].pc = "done"]
               /\ fs' = fs
          ELSE /\ call' = [call EXCEPT ![p].fd = [NoFd EXCEPT !.open = TRUE, !.path = dst],
                                       ![p].wrote = TRUE, ![p].pc = "dl_stream"]
               /\ fs' = WriteFile(fs, dst, <<>>)
    /\ UNCHANGED <<headers, env, ncalls, server>>

\* a chunk loop that replaces the file's content by each chunk it writes
DownloadStream_KeepsLastChunk(p) ==
    /\ call[p].pc = "dl_stream"
    /\ LET c == call[p]
           n == Min(DOWNLOAD_CHUNK_SIZE, Len(c.body))
           chunk == SubSeq(c.body, 1, n)
           c1 == [c EXCEPT !.body = SubSeq(c.body, n + 1, Len(c.body)),
                           !.incs = Append(c.incs, n),
                           !.chunks = Append(c.chunks, chunk)]
       IN \/ /\ c.body = <<>>
             /\ call' = [call EXCEPT ![p].fd = NoFd,
                                     ![p].pc = IF c.isdir THEN "dl_unpack" ELSE "done"]
             /\ fs' = fs
          \/ /\ c.body # <<>>
             /\ IF c.fd.orphan
                THEN /\ call' = [call EXCEPT ![p] = [c1 EXCEPT !.fd.data = chunk]]
                     /\ fs' = fs
                ELSE /\ call' = [call EXCEPT ![p] = c1]
                     /\ fs' = WriteFile(fs, c.fd.path, chunk)
          \/ /\ call' = [call EXCEPT ![p].fd = NoFd, ![p].err = ErrTransport,
                                     ![p].pc = "done"]
             /\ fs' = fs
    /\ UNCHANGED <<headers, env, ncalls, server>>

\* _do_download(), lines 214-216: one chunk of the response is written; the
\* connection may break instead, and the error leaves _do_download and download
DownloadStream(p) ==
    /\ call[p].pc = "dl_stream"
    /\ LET c == call[p]
           n == Min(DOWNLOAD_CHUNK_SIZE, Len(c.body))
           chunk == SubSeq(c.body, 1, n)
           c1 == [c EXCEPT !.body = SubSeq(c.body, n + 1, Len(c.body)),
                           !.incs = Append(c.incs, n),
                           !.chunks = Append(c.chunks, chunk)]
       IN \/ /\ c.body = <<>>
             /\ call' = [call EXCEPT ![p].fd = NoFd,
                                     ![p].pc = IF c.isdir THEN "dl_unpack" ELSE "done"]
             /\ fs' = fs
          \/ /\ c.body # <<>>
             /\ IF c.fd.orphan
                THEN /\ call' = [call EXCEPT ![p] = [c1 EXCEPT !.fd.data = c.fd.data \o chunk]]
                     /\ fs' = fs
                ELSE /\ call' = [call EXCEPT ![p] = c1]
                     /\ fs' = WriteFile(fs, c.fd.path, fs[c.fd.path].data \o chunk)
          \/ /\ call' = [call EXCEPT ![p].fd = NoFd, ![p].err = ErrTransport,
                                     ![p].pc = "done"]
             /\ fs' = fs
    /\ UNCHANGED <<headers, env, ncalls, server>>

\* tar -xf archive -C dir: what a well-formed archive (header byte 0) unpacks to
Unpack(f, dir, archive) == WriteFile(f, Append(dir, NameG), Tail(archive))

WellFormed(archive) == archive # <<>> /\ archive[1] = 0

\* download(), lines 96-99: the tar subprocess that unpacks the archive
DownloadUnpack(p) ==
    /\ call[p].pc = "dl_unpack"
    /\ LET c == call[p]
           tmp == Comps(c.dst_file_path)
           ok == [c EXCEPT !.tar_runs = c.tar_runs + 1, !.pc = "dl_finally"]
       IN \/ /\ IsFile(fs, c.dst_file_path)
             /\ WellFormed(fs[tmp].data)
             /\ isdir(fs, c.dst_dir_path)
             /\ fs' = Unpack(fs, Comps(c.dst_dir_path), fs[tmp].data)
             /\ call' = [call EXCEPT ![p] = ok]
          \/ /\ fs' = fs
             /\ call' = [call EXCEPT ![p] = [ok EXCEPT !.tar_rc = 1, !.err = ErrUnzip]]
    /\ UNCHANGED <<headers, env, ncalls, server>>

\* a removal of the archive that is skipped when unpacking failed
DownloadFinally_OnlyOnSuccess(p) ==
    /\ call[p].pc = "dl_finally"
    /\ LET c == [call[p] EXCEPT !.err0 = call[p].err, !.pc = "done"]
           tmp == Comps(c.dst_file_path)
       IN IF c.err = NoErr /\ IsFile(fs, c.dst_file_path)
          THEN /\ call' = Orphan([call EXCEPT ![p] = c], fs, tmp)
               /\ fs' = remove(fs, tmp)
          ELSE /\ call' = [call EXCEPT ![p] = c]
               /\ fs' = fs
    /\ UNCHANGED <<headers, env, ncalls, server>>

\* download(), lines 100-101: finally removes the archive; an error of
\* os.remove replaces the one that was propagating
DownloadFinally(p) ==
    /\ call[p].pc = "dl_finally"
    /\ LET c == [call[p] EXCEPT !.err0 = call[p].err, !.pc = "done"]
           tmp == Comps(c.dst_file_path)
       IN IF IsFile(fs, c.dst_file_path)
          THEN /\ call' = Orphan([call EXCEPT ![p] = c], fs, tmp)
               /\ fs' = remove(fs, tmp)
          ELSE /\ call' = [call EXCEPT ![p] = [c EXCEPT !.err = ErrOsNotFound]]
               /\ fs' = fs
    /\ UNCHANGED <<headers, env, ncalls, server>>

\* ------------------------------------------------------------------ list, delete
\* list_files() and _do_list_files(), lines 118-122 and 235-242
\* (verbose only goes into the URL, which the model leaves out)
ListFiles(p, path) ==
    /\ call[p].pc = "idle"
    /\ ncalls < MaxCalls
    /\ ncalls' = ncalls + 1
    /\ \E r \in Outcomes, listing \in Listings(path) :
        LET c == [IdleCall EXCEPT !.op = "list", !.src_file_path = path, !.arg = path,
                                  !.fs0 = fs]
            c1 == [c EXCEPT !.reqs = <<Request("ls", headers, c, r)>>, !.pc = "done"]
        IN /\ r # 200 => listing = <<>>
           /\ call' = [call EXCEPT ![p] =
                IF ListError(r) # NoErr THEN [c1 EXCEPT !.err = ListError(r)]
                ELSE [c1 EXCEPT !.listing = listing]]
    /\ UNCHANGED <<fs, headers, env, server>>

\* a delete check that lets every status below 400 pass
DeleteError_Only4xx5xx(r) ==
    IF r = 0 THEN ErrTransport
    ELSE IF r = 404 THEN ErrRemoteNotFound
    ELSE IF r >= 400 THEN ErrDelete(r)
    ELSE NoErr

\* _do_delete(), lines 136-139: the error of a delete answer, if any
DeleteError(r) ==
    IF r = 0 THEN ErrTransport
    ELSE IF r = 404 THEN ErrRemoteNotFound
    ELSE IF r # 204 THEN ErrDelete(r)
    ELSE NoErr

\* delete() and _do_delete(), lines 132-140
Delete(p, path) ==
    /\ call[p].pc = "idle"
    /\ ncalls < MaxCalls
    /\ ncalls' = ncalls + 1
    /\ \E r \in Outcomes :
        LET c == [IdleCall EXCEPT !.op = "delete", !.src_file_path = path, !.arg = path,
                                  !.fs0 = fs]
            c1 == [c EXCEPT !.reqs = <<Request("delete", headers, c, r)>>, !.pc = "done"]
        IN call' = [call EXCEPT ![p] = [c1 EXCEPT !.err = DeleteError(r)]]
    /\ UNCHANGED <<fs, headers, env, server>>

\* ------------------------------------------------------------------ storing server
\* a server that keeps the body of every upload it accepts under the file
\* name of the request and answers listings and downloads from what it keeps
StoreObject(sv, name, obj) ==
    [q \in DOMAIN sv \cup {name} |-> IF q = name THEN obj ELSE sv[q]]

\* the storing server accepts the preflight or refuses it
StorePreflight(p) ==
    \E r \in {200, 500} : UploadPreflightOn(p, r) /\ UNCHANGED server

\* the storing server keeps the body it received and answers 200
StoreBody(p) ==
    /\ UploadResponseOn(p, 200)
    /\ server' = StoreObject(server, call[p].dst_file_path,
                    [data |-> Concat(call[p].chunks),
                     archive |-> "X-Is-Archive" \in call[p].reqs[Len(call[p].reqs)].hdrs,
                     origin |-> call[p].arg])

\* the storing server lists a path it keeps as one entry named after it,
\* and answers 404 for a path it does not keep
StoreClassify(p) ==
    /\ LET path == call[p].src_file_path
       IN IF path \in DOMAIN server
          THEN DownloadClassifyOn(p, 200, <<Entry(basename(path))>>)
          ELSE DownloadClassifyOn(p, 404, <<>>)
    /\ UNCHANGED server

\* the storing server sends the bytes it keeps
StoreGet(p) ==
    /\ LET path == call[p].src_file_path
       IN IF path \in DOMAIN server
          THEN DownloadGetOn(p, 200, server[path].data)
          ELSE DownloadGetOn(p, 404, Bodies_Default)
    /\ UNCHANGED server

\* the call returns or raises to its caller
Return(p) ==
    /\ call[p].pc = "done"
    /\ call' = [call EXCEPT ![p] = IdleCall]
    /\ UNCHANGED <<fs, headers, env, ncalls, server>>

\* ------------------------------------------------------------------ other actors
\* the files a running call reads or writes
InUse ==
    {Comps(call[p].src_file_path) : p \in {q \in DOMAIN call :
            call[q].op = "upload" /\ call[q].pc \notin {"idle", "done"}}}
    \cup {Comps(call[p].dst_file_path) : p \in {q \in DOMAIN call :
            call[q].op = "download" /\ call[q].pc \notin {"idle", "done"}}}

EnvEnabled(c) ==
    /\ env < MaxEnvSteps
    /\ c \in InUse
    /\ c \in DOMAIN fs
    /\ fs[c].kind = "file"

\* another process appends a byte to a file a call is using
EnvAppend(c) ==
    /\ EnvEnabled(c)
    /\ fs' = WriteFile(fs, c, Append(fs[c].data, 9))
    /\ env' = env + 1
    /\ UNCHANGED <<headers, call, ncalls, server>>

\* another process cuts the last byte off a file a call is using
EnvTruncate(c) ==
    /\ EnvEnabled(c)
    /\ fs[c].data # <<>>
    /\ fs' = WriteFile(fs, c, SubSeq(fs[c].data, 1, Len(fs[c].data) - 1))
    /\ env' = env + 1
    /\ UNCHANGED <<headers, call, ncalls, server>>

\* another process removes a file a call is using
EnvRemove(c) ==
    /\ EnvEnabled(c)
    /\ fs' = remove(fs, c)
    /\ call' = Orphan(call, fs, c)
    /\ env' = env + 1
    /\ UNCHANGED <<headers, ncalls, server>>

\* ------------------------------------------------------------------ specification
Threads == {1}

\* __init__(), lines 28-32, and the file system before the first call
Init ==
    /\ fs = InitFs(MaxFileLen)
    /\ headers = {"Authorization"}
    /\ call = [p \in Threads |-> IdleCall]
    /\ env = 0
    /\ ncalls = 0
    /\ server = <<>>

\* the steps of upload
NextUpload ==
    \/ \E p \in DOMAIN call, src \in SrcPaths, dst \in RemotePaths : UploadStart(p, src, dst)
    \/ \E p \in DOMAIN call : UploadTar(p)
    \/ \E p \in DOMAIN call : UploadGetsize(p)
    \/ \E p \in DOMAIN call : UploadOpen(p)
    \/ \E p \in DOMAIN call : UploadPreflight(p)
    \/ \E p \in DOMAIN call : UploadBody(p)
    \/ \E p \in DOMAIN call : UploadStream(p)
    \/ \E p \in DOMAIN call : UploadResponse(p)
    \/ \E p \in DOMAIN call : UploadFinally(p)
    \/ \E p \in DOMAIN call : Return(p)

\* the steps of download, list_files and delete
NextOthers ==
    \/ \E p \in DOMAIN call, src \in RemotePaths, dst \in DstPaths : DownloadStart(p, src, dst)
    \/ \E p \in DOMAIN call : DownloadClassify(p)
    \/ \E p \in DOMAIN call : DownloadMakedirs(p)
    \/ \E p \in DOMAIN call : DownloadGet(p)
    \/ \E p \in DOMAIN call : DownloadOpen(p)
    \/ \E p \in DOMAIN call : DownloadStream(p)
    \/ \E p \in DOMAIN call : DownloadUnpack(p)
    \/ \E p \in DOMAIN call : DownloadFinally(p)
    \/ \E p \in DOMAIN call, path \in RemotePaths : ListFiles(p, path)
    \/ \E p \in DOMAIN call, path \in RemotePaths : Delete(p, path)

\* the steps of other actors of the local file system
NextEnv ==
    \/ \E c \in DOMAIN fs : EnvAppend(c)
    \/ \E c \in DOMAIN fs : EnvTruncate(c)
    \/ \E c \in DOMAIN fs : EnvRemove(c)

\* calls made one after the other on one client object
Next == NextUpload \/ NextOthers

Spec == Init /\ [][Next]_vars

\* uploads of files of every length while other actors touch the files in use
InitUpload ==
    /\ \E n \in 0..MaxFileLen : fs = InitFs(n)
    /\ headers = {"Authorization"}
    /\ call = [p \in Threads |-> IdleCall]
    /\ env = 0
    /\ ncalls = 0
    /\ server = <<>>

NextWithEnv == NextUpload \/ NextEnv

SpecUpload == InitUpload /\ [][NextWithEnv]_vars

\* uploads and downloads against the storing server
NextRoundTrip ==
    \/ \E p \in DOMAIN call, src \in SrcPaths, dst \in RemotePaths : UploadStart(p, src, dst)
    \/ \E p \in DOMAIN call : UploadTar(p)
    \/ \E p \in DOMAIN call : UploadGetsize(p)
    \/ \E p \in DOMAIN call : UploadOpen(p)
    \/ \E p \in DOMAIN call : StorePreflight(p)
    \/ \E p \in DOMAIN call : UploadBody(p)
    \/ \E p \in DOMAIN call : UploadStream(p)
    \/ \E p \in DOMAIN call : StoreBody(p)
    \/ \E p \in DOMAIN call : UploadFinally(p)
    \/ \E p \in DOMAIN call, src \in RemotePaths, dst \in DstPaths : DownloadStart(p, src, dst)
    \/ \E p \in DOMAIN call : StoreClassify(p)
    \/ \E p \in DOMAIN call : DownloadMakedirs(p)
    \/ \E p \in DOMAIN call : StoreGet(p)
    \/ \E p \in DOMAIN call : DownloadOpen(p)
    \/ \E p \in DOMAIN call : DownloadStream(p)
    \/ \E p \in DOMAIN call : Return(p)

SpecRoundTrip == InitUpload /\ [][NextRoundTrip]_vars

\* two callers use the client at the same time, each for uploads
Threads2 == {1, 2}

InitTwo ==
    /\ fs = InitFs(MaxFileLen)
    /\ headers = {"Authorization"}
    /\ call = [p \in Threads2 |-> IdleCall]
    /\ env = 0
    /\ ncalls = 0
    /\ server = <<>>

\* both callers upload the directory, under either spelling of its path
NextTwo ==
    \/ \E p \in DOMAIN call, src \in {<<"d">>, <<"d", "/">>} :
            UploadStart(p, src, <<"r", "/", "d">>)
    \/ \E p \in DOMAIN call : UploadTar(p)
    \/ \E p \in DOMAIN call : UploadGetsize(p)
    \/ \E p \in DOMAIN call : UploadOpen(p)
    \/ \E p \in DOMAIN call : UploadPreflight(p)
    \/ \E p \in DOMAIN call : UploadBody(p)
    \/ \E p \in DOMAIN call : UploadStream(p)
    \/ \E p \in DOMAIN call : UploadResponse(p)
    \/ \E p \in DOMAIN call : UploadFinally(p)
    \/ \E p \in DOMAIN call : Return(p)

SpecTwo == InitTwo /\ [][NextTwo]_vars

\* uploads on a file system where a file named '.d.tar.gz' exists already
InitPre ==
    /\ fs = InitFs(MaxFileLen) @@ (<<TarGzName(NameD)>> :> FileNode(<<5>>))
    /\ headers = {"Authorization"}
    /\ call = [p \in Threads |-> IdleCall]
    /\ env = 0
    /\ ncalls = 0
    /\ server = <<>>

SpecPre == InitPre /\ [][NextUpload]_vars

TypeOK ==
    /\ env \in 0..MaxEnvSteps
    /\ ncalls \in 0..MaxCalls
    /\ headers \subseteq {"Authorization", "X-Is-Archive"}
    /\ \A p \in DOMAIN call : call[p].pc \in
        {"idle", "done", "up_tar", "up_getsize", "up_open", "up_pre", "up_body",
         "up_stream", "up_resp", "up_finally", "dl_ls", "dl_mkdir", "dl_get",
         "dl_open", "dl_stream", "dl_unpack", "dl_finally"}

\* ------------------------------------------------------------------ claims
Finished(p, op) == call[p].pc = "done" /\ call[p].op = op

\* the path of the temporary archive of a directory upload / directory download
UploadTmp(p) == Comps(call[p].src_file_path)
DownloadTmp(p) == Comps(call[p].dst_file_path)

\* C1: when an upload of a directory returns or raises, whatever the exit
\* path, the temporary archive '.<basename>.tar.gz' does not exist.
C1_ArchiveRemovedOnEveryExit ==
    \A p \in DOMAIN call :
        Finished(p, "upload") /\ call[p].isdir => UploadTmp(p) \notin DOMAIN fs

C3_FailedArchiveLeavesNothing ==
    \A p \in DOMAIN call :
        (Finished(p, "upload") /\ call[p].tar_rc # 0)
        => /\ call[p].err = ErrArchive
           /\ call[p].reqs = <<>>
           /\ UploadTmp(p) \notin DOMAIN fs

\* C4: an upload of a local path that does not exist ends at once with the
\* not-found error, without any request and without running tar.
C4_MissingSourceNotFound ==
    \A p \in DOMAIN call :
        (call[p].op = "upload" /\ Comps(call[p].arg) \notin DOMAIN call[p].fs0)
        => /\ call[p].pc = "done"
           /\ call[p].err = ErrLocalNotFound
           /\ call[p].reqs = <<>>
           /\ call[p].tar_runs = 0
           /\ fs = call[p].fs0

\* an upload of the missing path x has raised
C4_MissingSourceRejected ==
    \E p \in DOMAIN call :
        /\ Finished(p, "upload")
        /\ call[p].arg = <<"x">>
        /\ <<<<"x">>>> \notin DOMAIN call[p].fs0
        /\ call[p].err = ErrLocalNotFound

\* C5: when the listing request of download is answered with 404, download
\* raises the not-found error, creates no directory, sends no download
\* request and writes no file.
C5_Listing404StopsDownload ==
    \A p \in DOMAIN call :
        (call[p].op = "download" /\ call[p].reqs # <<>> /\ call[p].reqs[1].status = 404)
        => /\ call[p].pc = "done"
           /\ call[p].err = ErrRemoteNotFound
           /\ Len(call[p].reqs) = 1
           /\ call[p].reqs[1].kind = "ls"
           /\ ~call[p].made_dirs
           /\ ~call[p].wrote
           /\ fs = call[p].fs0

\* a download into n/o whose listing was answered with 404 has raised, and
\* the directory n does not exist
C5_Listing404Raised ==
    \E p \in DOMAIN call :
        /\ Finished(p, "download")
        /\ call[p].arg = <<"n", "/", "o">>
        /\ call[p].reqs[1].kind = "ls"
        /\ call[p].reqs[1].status = 404
        /\ <<<<"n">>>> \notin DOMAIN fs

\* C6: after a listing answered with 200, the remote path is a file exactly
\* when the listing has one entry whose name is the base name of the path;
\* every other listing makes it a directory, and no error is raised.
C6_ClassifiedByListing ==
    \A p \in DOMAIN call :
        (call[p].op = "download" /\ call[p].reqs # <<>> /\ call[p].reqs[1].status = 200)
        => /\ ~call[p].isdir <=>
                (/\ Len(call[p].listing) = 1
                 /\ call[p].listing[1].name = basename(call[p].src_file_path))
           /\ Len(call[p].reqs) = 1 =>
                (call[p].pc \in {"dl_mkdir", "dl_get"} /\ call[p].err = NoErr)

\* a listing of one entry with another name was classified as a directory
C6_MismatchedEntryIsDirectory ==
    \E p \in DOMAIN call :
        /\ call[p].op = "download"
        /\ call[p].pc = "dl_mkdir"
        /\ Len(call[p].listing) = 1
        /\ call[p].listing[1].name # basename(call[p].src_file_path)
        /\ call[p].isdir

\* C7: when a download of a remote directory has ended, with or without an
\* error, no temporary archive is left on the local file system.
C7_NoArchiveAfterDirectoryDownload ==
    \A p \in DOMAIN call :
        Finished(p, "download") /\ call[p].isdir => DownloadTmp(p) \notin DOMAIN fs

\* C8: every upload request and every download request carries the header
\* X-Is-Archive exactly when the source of its own call is a directory.
C8_ArchiveHeaderIffDirectory ==
    \A p \in DOMAIN call :
        \A i \in 1..Len(call[p].reqs) :
            call[p].reqs[i].kind \in {"pre", "body", "get"} =>
                ("X-Is-Archive" \in call[p].reqs[i].hdrs <=> call[p].isdir)

\* the body of an upload has been consumed to its end
BodyConsumed(p) == call[p].op = "upload" /\ call[p].pc = "up_resp"

\* no other actor has touched a file since the size was measured
Undisturbed(p) == env = call[p].env0

C10_ChunksAndProgress ==
    \A p \in DOMAIN call :
        BodyConsumed(p) /\ Undisturbed(p) =>
            LET c == call[p]
                k == Len(c.chunks)
            IN /\ Len(c.incs) = k
               /\ \A i \in 1..k :
                    /\ c.incs[i] = Len(c.chunks[i])
                    /\ c.incs[i] \in 1..DOWNLOAD_CHUNK_SIZE
                    /\ i < k => c.incs[i] = DOWNLOAD_CHUNK_SIZE
               /\ SumSeq(c.incs) = c.file_size
               /\ Concat(c.chunks) = FdData(fs, c.fd)
               /\ Len(FdData(fs, c.fd)) = c.file_size
               /\ c.file_size = 0 => k = 0

\* an upload delivered a file in several chunks, the last one a short one
C10_ShortLastChunk ==
    \E p \in DOMAIN call :
        /\ BodyConsumed(p)
        /\ Undisturbed(p)
        /\ Len(call[p].incs) >= 2
        /\ call[p].incs[Len(call[p].incs)] < DOWNLOAD_CHUNK_SIZE

LastReq(p) == call[p].reqs[Len(call[p].reqs)]

\* C12: for download, list and delete a 404 answer gives the not-found error,
\* the call returns normally only after 200 (download, list) or 204 (delete),
\* and every other status gives the failure error of the operation.
C12_StatusMapping ==
    \A p \in DOMAIN call :
        (call[p].op \in {"download", "list", "delete"} /\ call[p].reqs # <<>>) =>
            LET c == call[p]
                r == LastReq(p)
                good == IF r.kind = "delete" THEN 204 ELSE 200
                failure == IF r.kind = "delete" THEN ErrDelete(r.status)
                           ELSE IF r.kind = "get" THEN ErrDownload
                           ELSE ErrBrowse
            IN /\ r.status = 404 => (c.pc = "done" /\ c.err = ErrRemoteNotFound)
               /\ r.status \notin {0, 404, good} => (c.pc = "done" /\ c.err = failure)
               /\ (c.pc = "done" /\ c.err = NoErr) =>
                    \A i \in 1..Len(c.reqs) :
                        c.reqs[i].status = IF c.reqs[i].kind = "delete" THEN 204 ELSE 200

\* a delete answered with 200 has raised the delete error
C12_Delete200Raised ==
    \E p \in DOMAIN call :
        /\ Finished(p, "delete")
        /\ call[p].reqs[1].status = 200
        /\ call[p].err = ErrDelete(200)

\* C13: against a server that stores what it receives, a successful download
\* of a remote path that holds a successfully uploaded regular file leaves at
\* the destination a file of that name with the same bytes, and the remote
\* path is classified as a file: tar is not run.
C13_FileRoundTrip ==
    \A p \in DOMAIN call :
        (/\ Finished(p, "download")
         /\ call[p].err = NoErr
         /\ call[p].src_file_path \in DOMAIN server
         /\ IsFile(fs, server[call[p].src_file_path].origin))
        => LET c == call[p]
               dst == Comps(c.arg)
               origin == Comps(server[c.src_file_path].origin)
           IN /\ ~c.isdir
              /\ c.tar_runs = 0
              /\ dst \in DOMAIN fs
              /\ fs[dst].kind = "file"
              /\ fs[dst].data = fs[origin].data

\* a regular file of several chunks came back from the server into n/o
C13_FileCameBack ==
    \E p \in DOMAIN call :
        /\ Finished(p, "download")
        /\ call[p].err = NoErr
        /\ call[p].arg = <<"n", "/", "o">>
        /\ call[p].src_file_path \in DOMAIN server
        /\ server[call[p].src_file_path].origin = <<"f">>
        /\ Len(call[p].chunks) >= 2
        /\ <<<<"n">>, <<"o">>>> \in DOMAIN fs

\* C14: in a directory download that reached the unpack step, the temporary
\* archive is gone when the call ends, whether unpacking succeeded or failed,
\* and a failed unpack is raised as the archive error.
C14_ArchiveRemovedAfterUnpack ==
    \A p \in DOMAIN call :
        (Finished(p, "download") /\ call[p].tar_runs = 1)
        => /\ call[p].isdir
           /\ DownloadTmp(p) \notin DOMAIN fs
           /\ call[p].tar_rc # 0 => call[p].err = ErrUnzip
           /\ call[p].tar_rc = 0 => call[p].err = NoErr

\* a directory download whose unpack step failed has raised the archive
\* error and its archive is gone
C14_FailedUnpackRaised ==
    \E p \in DOMAIN call :
        /\ Finished(p, "download")
        /\ call[p].tar_runs = 1
        /\ call[p].tar_rc # 0
        /\ call[p].err = ErrUnzip
        /\ call[p].wrote
        /\ DownloadTmp(p) \notin DOMAIN fs

\* a call that is running with a temporary archive of its own
HoldsArchive(p) == call[p].isdir /\ call[p].pc \notin {"idle", "done"}

\* the path of the temporary archive of a running call
ArchivePath(p) ==
    IF call[p].op = "upload" THEN UploadTmp(p) ELSE DownloadTmp(p)

\* C15: two calls that run at the same time never use the same temporary
\* archive path.
C15_NoSharedArchivePath ==
    \A p, q \in DOMAIN call :
        (p # q /\ HoldsArchive(p) /\ HoldsArchive(q)) => ArchivePath(p) # ArchivePath(q)

\* C16: when an error is propagating and the removal of the temporary
\* archive fails, the caller receives the error that was propagating.
C16_CleanupKeepsFirstError ==
    \A p \in DOMAIN call :
        (call[p].pc = "done" /\ call[p].err0 # NoErr) => call[p].err = call[p].err0

\* C17: every regular file that existed when an upload started, a file named
\* '.<basename>.tar.gz' included, exists with the same content when it ends.
C17_ExistingFilesUntouched ==
    \A p \in DOMAIN call :
        Finished(p, "upload") =>
            \A c \in DOMAIN call[p].fs0 :
                call[p].fs0[c].kind = "file" => (c \in DOMAIN fs /\ fs[c] = call[p].fs0[c])

\* C18: the temporary archive of a directory upload is a sibling of the
\* directory named '.' + base name + '.tar.gz', and lies outside its tree,
\* with or without a trailing separator on the source path.
C18_ArchiveIsSibling ==
    \A p \in DOMAIN call :
        (call[p].op = "upload" /\ call[p].isdir) =>
            LET dir == Comps(call[p].src_dir_path)
                tmp == UploadTmp(p)
            IN /\ ParentOf(tmp) = ParentOf(dir)
               /\ tmp[Len(tmp)] = TarGzName(dir[Len(dir)])
               /\ ~IsUnder(tmp, dir)

\* C19: no call changes the base headers built at construction.
C19_BaseHeadersUnchanged == headers = {"Authorization"}

\* C20: as long as upload has not issued the request that carries the body,
\* nothing was read from the source and the progress sink got nothing; an
\* upload whose preflight was rejected ends with a progress total of 0.
C20_NothingReadBeforeBody ==
    \A p \in DOMAIN call :
        call[p].op = "upload" =>
            /\ (\A i \in 1..Len(call[p].reqs) : call[p].reqs[i].kind # "body") =>
                    /\ call[p].incs = <<>>
                    /\ call[p].chunks = <<>>
                    /\ call[p].fd.pos = 0
            /\ (Finished(p, "upload") /\ Len(call[p].reqs) = 1) => SumSeq(call[p].incs) = 0

\* an upload of a file with content ended on a rejected preflight
C20_RejectedBeforeAnyRead ==
    \E p \in DOMAIN call :
        /\ Finished(p, "upload")
        /\ call[p].file_size > 0
        /\ Len(call[p].reqs) = 1
        /\ call[p].reqs[1].status = 500
        /\ call[p].incs = <<>>

====
